---- MODULE Spec2Model ----
(***************************************************************************)
(* Live transcription (live_transcribe.py): the capture loop of main()     *)
(* with its voice-activity state machine, the noise calibration, the       *)
(* transcription queue and the transcription worker thread.                *)
(*                                                                         *)
(* Units.  Wall-clock time is counted in milliseconds, loudness (RMS and   *)
(* threshold) in thousandths, audio length in samples.  An audio block is  *)
(* represented by its arrival number and its RMS: [id, rms].               *)
(***************************************************************************)
EXTENDS Integers, Sequences, FiniteSets, TLC

\* ---------------------------------------------------------------- constants
SAMPLE_RATE == 16000
BLOCK_SIZE == 1024
SILENCE_THRESHOLD_MULTIPLIER == 2
\* seconds in the source, milliseconds here
SILENCE_DURATION == 2000
MIN_RECORDING_DURATION == 500
\* min_threshold = 0.001, in thousandths
MIN_THRESHOLD == 1
\* silence_start_time = None
NoTime == 0 - 1
\* calibrate_noise(duration=2.0), in milliseconds
CAL_DURATION == 2000

\* ------------------------------------------------------------------- bounds
\* number of blocks the capture loop reads in a run
MaxBlocks == 16
\* number of blocks with RMS above the threshold in a run
MaxLoud == 2
\* number of blocks read while idle with RMS at most the threshold in a run
MaxIdle == 1
\* wall-clock time of a run, in milliseconds
MaxTime == 6000
\* number of full blocks of the calibration recording
CalLen == 2

\* ------------------------------------------------------------------- inputs
\* RMS of a block read by the capture loop
RmsValues == {5, 50}
\* RMS of a block of the calibration recording
CalRms == {0, 5}
\* values of SILENCE_THRESHOLD_MULTIPLIER the calibration is tried with
Multipliers == 0..7
\* wall-clock time that passes between two readings of the clock
Deltas == {0, 1000}
\* texts model.transcribe returns: blank, bare, and with blanks around
Texts == {<<" ">>, <<"h">>, <<" ", "h", " ">>}
\* what model.transcribe does with a segment: return a text or raise
Results == [raised : {FALSE}, text : Texts] \cup {[raised |-> TRUE, text |-> <<>>]}

VARIABLES
  pc,                 \* position of the main thread
  threshold,          \* main: threshold
  nread,              \* number of blocks stream.read has returned
  nloud,              \* number of them with rms > threshold
  nidle,              \* number of them dropped while idle
  now,                \* the wall clock, time.time()
  is_recording,       \* main: is_recording
  audio_buffer,       \* main: audio_buffer
  onset,              \* arrival number of the block that last started a recording
  silence_start_time, \* main: silence_start_time
  lastElapsed,        \* time.time() - silence_start_time of the last iteration, if it was computed
  silentSince,        \* clock at the first block of the run of silence the last iteration continued
  queue,              \* transcription_queue: the entries waiting
  unfinished,         \* transcription_queue.unfinished_tasks
  enqueued,           \* every entry ever put on the queue, in order
  stopUnfinished,     \* unfinished when the sentinel was put, NoTime before
  nclosed,            \* number of segments the capture loop has closed
  lastClosed,         \* the last of them, and whether it was put on the queue
  wpc,                \* position of the worker thread
  cur,                \* worker: audio_data
  transcribed,        \* every segment handed to model.transcribe, in order
  outcomes,           \* what model.transcribe did with each of them
  delivered,          \* every text handed to type_text, in order
  calRec,             \* calibration alone: the recording it is applied to
  calMult             \* calibration alone: the multiplier it is applied with

vars == <<pc, threshold, nread, nloud, nidle, now, is_recording, audio_buffer, onset,
          silence_start_time, lastElapsed, silentSince, queue, unfinished, enqueued,
          stopUnfinished,
          nclosed, lastClosed, wpc, cur, transcribed, outcomes, delivered,
          calRec, calMult>>

mainVars == <<pc, threshold, nread, nloud, nidle, now, is_recording, audio_buffer, onset,
              silence_start_time, lastElapsed, silentSince, nclosed, lastClosed>>
workerVars == <<wpc, cur, transcribed, outcomes, delivered>>
queueVars == <<queue, unfinished, enqueued, stopUnfinished>>
calVars == <<calRec, calMult>>

\* ------------------------------------------------------------------ helpers
Max2(a, b) == IF a >= b THEN a ELSE b
\* the last element of a sequence
Last(s) == s[Len(s)]

RECURSIVE SeqMax(_)
SeqMax(s) == IF Len(s) = 1 THEN s[1] ELSE Max2(s[1], SeqMax(Tail(s)))

\* calculate_rms of a block
calculate_rms(block) == block.rms

\* len(recording) = int(duration * SAMPLE_RATE)
RecordedSamples == (CAL_DURATION * SAMPLE_RATE) \div 1000
\* the samples left after the last full block
TailLen == RecordedSamples % BLOCK_SIZE

\* A recording is a sequence of chunks [len, rms] that lie on the block
\* boundaries: every chunk but the last holds BLOCK_SIZE samples.
RECURSIVE RecLen(_)
RecLen(rec) == IF rec = <<>> THEN 0 ELSE Head(rec).len + RecLen(Tail(rec))

\* the recording split without truncation: the trailing chunk is a block too
FullBlocks_all(rec) == rec

\* num_blocks = len(recording) // BLOCK_SIZE; the recording truncated to the
\* full blocks and split into them
FullBlocks(rec) == SubSeq(rec, 1, RecLen(rec) \div BLOCK_SIZE)

\* rms_values = [calculate_rms(chunk) for chunk in blocks]
RmsOf(blocks) == [i \in 1..Len(blocks) |-> calculate_rms(blocks[i])]

\* threshold = max(max_rms * multiplier, min_threshold)
CalThreshold(rms_values, multiplier) ==
  Max2(SeqMax(rms_values) * multiplier, MIN_THRESHOLD)

\* calibrate_noise, from the RMS values of the full blocks of the recording
calibrate_noise(rms_values) ==
  CalThreshold(rms_values, SILENCE_THRESHOLD_MULTIPLIER)

\* the recordings sd.rec returns: CalLen full blocks and the trailing samples
CalRecordings ==
  {[i \in 1..(CalLen + 1) |->
      IF i <= CalLen THEN [len |-> BLOCK_SIZE, rms |-> f[i]]
                     ELSE [len |-> TailLen, rms |-> f[i]]] :
     f \in [1..(CalLen + 1) -> CalRms]}

\* str.strip
RECURSIVE LStrip(_)
LStrip(s) == IF s # <<>> /\ Head(s) = " " THEN LStrip(Tail(s)) ELSE s
RECURSIVE RStrip(_)
RStrip(s) == IF s # <<>> /\ s[Len(s)] = " " THEN RStrip(SubSeq(s, 1, Len(s) - 1)) ELSE s
\* only the blanks in front are removed
Strip_left(s) == LStrip(s)

Strip(s) == RStrip(LStrip(s))

\* queue entries: a segment (np.concatenate of the buffered blocks) or None
Segment(buf) == [kind |-> "segment", audio |-> buf]
Sentinel == [kind |-> "None", audio |-> <<>>]

\* len(full_audio): the blocks are concatenated along the sample axis
NumSamples(buf) == Len(buf) * BLOCK_SIZE

\* the check of the duration left out: every closed segment is long enough
LongEnough_always(buf) == TRUE

\* duration >= MIN_RECORDING_DURATION, duration = len(full_audio) / SAMPLE_RATE
LongEnough(buf) == NumSamples(buf) * 1000 >= MIN_RECORDING_DURATION * SAMPLE_RATE

\* the comparison with >= in place of >
SilenceExceeded_ge(t, start) == t - start >= SILENCE_DURATION

\* time.time() - silence_start_time > SILENCE_DURATION
SilenceExceeded(t, start) == t - start > SILENCE_DURATION

\* the block appended twice
AppendBlock_twice(buf, indata) == Append(Append(buf, indata), indata)

\* audio_buffer.append(indata.copy())
AppendBlock(buf, indata) == Append(buf, indata)

\* the timer left running when speech resumes
TimerAfterSpeech_kept(timer) == timer

\* silence_start_time = None after a block of speech (line 146)
TimerAfterSpeech(timer) == NoTime

\* the timer left set when the segment closes
TimerAfterClose_kept(timer) == timer

\* silence_start_time = None when the segment closes (line 172)
TimerAfterClose(timer) == NoTime

\* the buffer kept when the segment closes
BufferAfterClose_kept(buf) == buf

\* audio_buffer = [] when the segment closes (line 171)
BufferAfterClose(buf) == <<>>

\* a block of silence read while idle kept in the buffer
IdleBuffer_kept(buf, indata) == Append(buf, indata)

\* a block of silence read while idle: neither branch of lines 138-148 runs
IdleBuffer(buf, indata) == buf

\* a queue of maxsize 1: put blocks while an entry waits
CanPut_bounded(q) == Len(q) < 1

\* queue.Queue(): maxsize 0, put never blocks
CanPut(q) == TRUE
\* Queue.put
QueuePut(q, entry) == Append(q, entry)
\* a last-in first-out get
QueueGet_lifo(q) == [item |-> q[Len(q)], rest |-> SubSeq(q, 1, Len(q) - 1)]

\* Queue.get on a non-empty queue
QueueGet(q) == [item |-> Head(q), rest |-> Tail(q)]

\* ------------------------------------------------------------------ initial
\* main has loaded the model and started the worker thread (lines 108-116)
Init ==
  /\ pc = "calibrate"
  /\ threshold = 0
  /\ nread = 0
  /\ nloud = 0
  /\ nidle = 0
  /\ now = 0
  /\ is_recording = FALSE
  /\ audio_buffer = <<>>
  /\ onset = 0
  /\ silence_start_time = NoTime
  /\ lastElapsed = NoTime
  /\ silentSince = NoTime
  /\ queue = <<>>
  /\ unfinished = 0
  /\ enqueued = <<>>
  /\ stopUnfinished = NoTime
  /\ nclosed = 0
  /\ lastClosed = [audio |-> <<>>, dispatched |-> FALSE]
  /\ wpc = "get"
  /\ cur = Sentinel
  /\ transcribed = <<>>
  /\ outcomes = <<>>
  /\ delivered = <<>>
  /\ calRec = <<>>
  /\ calMult = SILENCE_THRESHOLD_MULTIPLIER

\* the process is alive: the worker is a daemon thread and dies with main
Alive == pc \notin {"crashed", "done"}

\* ------------------------------------------------------------- main thread
\* threshold = calibrate_noise() returns
Calibrate ==
  /\ pc = "calibrate"
  /\ \E recording \in CalRecordings :
       threshold' = calibrate_noise(RmsOf(FullBlocks(recording)))
  /\ pc' = "listen"
  /\ UNCHANGED <<nread, nloud, nidle, now, is_recording, audio_buffer, onset,
                 silence_start_time, lastElapsed, silentSince, nclosed, lastClosed>>
  /\ UNCHANGED queueVars
  /\ UNCHANGED workerVars
  /\ UNCHANGED calVars

\* the error of the recording swallowed: main goes on without a threshold
CalibrateFail_swallowed ==
  /\ pc = "calibrate"
  /\ pc' = "listen"
  /\ UNCHANGED <<threshold, nread, nloud, nidle, now, is_recording, audio_buffer, onset,
                 silence_start_time, lastElapsed, silentSince, nclosed, lastClosed>>
  /\ UNCHANGED queueVars
  /\ UNCHANGED workerVars
  /\ UNCHANGED calVars

\* sd.rec / sd.wait raises: nothing in main catches it
CalibrateFail ==
  /\ pc = "calibrate"
  /\ pc' = "crashed"
  /\ UNCHANGED <<threshold, nread, nloud, nidle, now, is_recording, audio_buffer, onset,
                 silence_start_time, lastElapsed, silentSince, nclosed, lastClosed>>
  /\ UNCHANGED queueVars
  /\ UNCHANGED workerVars
  /\ UNCHANGED calVars

\* the inputs of one iteration the bounds admit
InBounds(rms, d1, d2) ==
  /\ nread < MaxBlocks
  /\ now + d1 + d2 <= MaxTime
  /\ rms > threshold => nloud < MaxLoud
  /\ (rms <= threshold /\ ~is_recording) => nidle < MaxIdle

\* one iteration of the capture loop (lines 131-173): the block read has RMS
\* rms, d1 passes until the clock is first read, d2 between the two readings
\* of the clock when the silence timer is started
ReadBlock(rms, d1, d2) ==
  /\ pc = "listen"
  /\ InBounds(rms, d1, d2)
  /\ LET indata == [id |-> nread + 1, rms |-> rms]
         r == calculate_rms(indata)
     IN
     /\ nread' = nread + 1
     /\ IF r > threshold
        THEN \* speech
          /\ nloud' = nloud + 1
          /\ nidle' = nidle
          /\ now' = now + d1
          /\ is_recording' = TRUE
          /\ audio_buffer' = AppendBlock(IF is_recording THEN audio_buffer ELSE <<>>, indata)
          /\ onset' = IF is_recording THEN onset ELSE indata.id
          /\ silence_start_time' = TimerAfterSpeech(silence_start_time)
          /\ lastElapsed' = NoTime
          /\ silentSince' = NoTime
          /\ UNCHANGED <<nclosed, lastClosed, queue, unfinished, enqueued>>
        ELSE IF is_recording
        THEN \* silence while recording
          LET buf == AppendBlock(audio_buffer, indata)
              t1 == now + d1
              start == IF silence_start_time = NoTime THEN t1 ELSE silence_start_time
              t2 == IF silence_start_time = NoTime THEN t1 + d2 ELSE t1
          IN
          /\ nloud' = nloud
          /\ nidle' = nidle
          /\ onset' = onset
          /\ now' = t2
          /\ lastElapsed' = t2 - start
          /\ silentSince' = IF calculate_rms(Last(audio_buffer)) > threshold
                            THEN t1 ELSE silentSince
          /\ IF SilenceExceeded(t2, start)
             THEN
               /\ IF LongEnough(buf)
                  THEN /\ CanPut(queue)
                       /\ queue' = QueuePut(queue, Segment(buf))
                       /\ enqueued' = Append(enqueued, Segment(buf))
                       /\ unfinished' = unfinished + 1
                       /\ lastClosed' = [audio |-> buf, dispatched |-> TRUE]
                  ELSE /\ lastClosed' = [audio |-> buf, dispatched |-> FALSE]
                       /\ UNCHANGED <<queue, unfinished, enqueued>>
               /\ nclosed' = nclosed + 1
               /\ is_recording' = FALSE
               /\ audio_buffer' = BufferAfterClose(buf)
               /\ silence_start_time' = TimerAfterClose(start)
             ELSE
               /\ audio_buffer' = buf
               /\ silence_start_time' = start
               /\ UNCHANGED <<is_recording, nclosed, lastClosed, queue, unfinished, enqueued>>
        ELSE \* silence while idle
          /\ nloud' = nloud
          /\ nidle' = nidle + 1
          /\ onset' = onset
          /\ now' = now + d1
          /\ lastElapsed' = NoTime
          /\ silentSince' = NoTime
          /\ audio_buffer' = IdleBuffer(audio_buffer, indata)
          /\ UNCHANGED <<is_recording, silence_start_time,
                         nclosed, lastClosed, queue, unfinished, enqueued>>
  /\ UNCHANGED <<pc, threshold, stopUnfinished>>
  /\ UNCHANGED workerVars
  /\ UNCHANGED calVars

Capture == \E rms \in RmsValues, d1 \in Deltas, d2 \in Deltas : ReadBlock(rms, d1, d2)

\* the handler inside the loop: main goes on reading
AfterInterrupt_loop == "listen"

\* where main goes when it catches KeyboardInterrupt
AfterInterrupt == "join"

\* the sentinel put ahead of the waiting entries
PutSentinel_front(q) == <<Sentinel>> \o q

\* the recording in progress put on the queue before the sentinel
PutSentinel_flush(q) ==
  IF is_recording THEN QueuePut(QueuePut(q, Segment(audio_buffer)), Sentinel)
                  ELSE QueuePut(q, Sentinel)

\* the sentinel main puts on the queue
PutSentinel(q) == QueuePut(q, Sentinel)

\* KeyboardInterrupt in the capture loop: the handler puts None on the queue
\* (lines 175-177).  The interrupt is taken between two iterations, where
\* main waits in stream.read; the variables of the loop are not read again.
Interrupt ==
  /\ pc = "listen"
  /\ CanPut(queue)
  /\ queue' = PutSentinel(queue)
  /\ enqueued' = Append(enqueued, Sentinel)
  /\ unfinished' = unfinished + 1
  /\ stopUnfinished' = unfinished
  /\ pc' = AfterInterrupt
  /\ UNCHANGED <<threshold, nread, nloud, nidle, now, is_recording, audio_buffer, onset,
                 silence_start_time, lastElapsed, silentSince, nclosed, lastClosed>>
  /\ UNCHANGED workerVars
  /\ UNCHANGED calVars

\* KeyboardInterrupt during calibration, outside the try statement
InterruptEarly ==
  /\ pc = "calibrate"
  /\ pc' = "crashed"
  /\ UNCHANGED <<threshold, nread, nloud, nidle, now, is_recording, audio_buffer, onset,
                 silence_start_time, lastElapsed, silentSince, nclosed, lastClosed>>
  /\ UNCHANGED queueVars
  /\ UNCHANGED workerVars
  /\ UNCHANGED calVars

\* stream.read raises: the handler only catches KeyboardInterrupt
ReadError ==
  /\ pc = "listen"
  /\ pc' = "crashed"
  /\ UNCHANGED <<threshold, nread, nloud, nidle, now, is_recording, audio_buffer, onset,
                 silence_start_time, lastElapsed, silentSince, nclosed, lastClosed>>
  /\ UNCHANGED queueVars
  /\ UNCHANGED workerVars
  /\ UNCHANGED calVars

\* main returns without waiting for the worker
JoinReady_nowait == TRUE

\* Thread.join returns when the worker thread has ended
JoinReady == wpc = "exited"

\* worker_thread.join() returns and main returns (line 178)
Join ==
  /\ pc = "join"
  /\ JoinReady
  /\ pc' = "done"
  /\ UNCHANGED <<threshold, nread, nloud, nidle, now, is_recording, audio_buffer, onset,
                 silence_start_time, lastElapsed, silentSince, nclosed, lastClosed>>
  /\ UNCHANGED queueVars
  /\ UNCHANGED workerVars
  /\ UNCHANGED calVars

\* ----------------------------------------------------------- worker thread
\* an exception of model.transcribe ends the worker
AfterItem_dies(result) == IF result.raised THEN "exited" ELSE "get"

\* where the worker goes after the try statement of one entry
AfterItem(result) == "get"

\* transcription_queue.get() returns an entry (lines 69-71); a segment goes
\* to model.transcribe
WorkerGet ==
  /\ Alive
  /\ wpc = "get"
  /\ queue # <<>>
  /\ LET g == QueueGet(queue) IN
     /\ queue' = g.rest
     /\ IF g.item = Sentinel
        THEN /\ wpc' = "exited"
             /\ UNCHANGED <<cur, transcribed>>
        ELSE /\ wpc' = "transcribe"
             /\ cur' = g.item
             /\ transcribed' = Append(transcribed, g.item)
  /\ UNCHANGED <<unfinished, enqueued, stopUnfinished, outcomes, delivered>>
  /\ UNCHANGED mainVars
  /\ UNCHANGED calVars

\* model.transcribe returns or raises; the rest of the iteration (lines
\* 82-93).  delivered records the calls of type_text; an exception of
\* type_text is caught by the same handler and changes nothing else.
WorkerFinish(result) ==
  /\ Alive
  /\ wpc = "transcribe"
  /\ outcomes' = Append(outcomes, result)
  /\ LET text == Strip(result.text) IN
     delivered' = IF ~result.raised /\ text # <<>>
                  THEN Append(delivered, text)
                  ELSE delivered
  /\ unfinished' = unfinished - 1
  /\ wpc' = AfterItem(result)
  /\ cur' = Sentinel
  /\ UNCHANGED <<queue, enqueued, stopUnfinished, transcribed>>
  /\ UNCHANGED mainVars
  /\ UNCHANGED calVars

Transcribe == \E result \in Results : WorkerFinish(result)

Next ==
  \/ Calibrate
  \/ CalibrateFail
  \/ InterruptEarly
  \/ Capture
  \/ Interrupt
  \/ ReadError
  \/ Join
  \/ WorkerGet
  \/ Transcribe

Spec == Init /\ [][Next]_vars

\* ------------------------------------------------------ calibration alone
\* calibrate_noise applied to a recording, with a multiplier
CalInit ==
  /\ pc = "calibrate"
  /\ threshold = 0
  /\ nread = 0
  /\ nloud = 0
  /\ nidle = 0
  /\ now = 0
  /\ is_recording = FALSE
  /\ audio_buffer = <<>>
  /\ onset = 0
  /\ silence_start_time = NoTime
  /\ lastElapsed = NoTime
  /\ silentSince = NoTime
  /\ queue = <<>>
  /\ unfinished = 0
  /\ enqueued = <<>>
  /\ stopUnfinished = NoTime
  /\ nclosed = 0
  /\ lastClosed = [audio |-> <<>>, dispatched |-> FALSE]
  /\ wpc = "get"
  /\ cur = Sentinel
  /\ transcribed = <<>>
  /\ outcomes = <<>>
  /\ delivered = <<>>
  /\ calRec \in CalRecordings
  /\ calMult \in Multipliers

\* lines 45-63 of calibrate_noise on the recording calRec
CalApply ==
  /\ pc = "calibrate"
  /\ threshold' = CalThreshold(RmsOf(FullBlocks(calRec)), calMult)
  /\ pc' = "listen"
  /\ UNCHANGED <<nread, nloud, nidle, now, is_recording, audio_buffer, onset,
                 silence_start_time, lastElapsed, silentSince, nclosed, lastClosed>>
  /\ UNCHANGED queueVars
  /\ UNCHANGED workerVars
  /\ UNCHANGED calVars

CalNext == CalApply

CalSpec == CalInit /\ [][CalNext]_vars

\* the threads are scheduled fairly and every call of model.transcribe ends
FairSpec == Spec /\ WF_vars(WorkerGet) /\ WF_vars(Transcribe) /\ WF_vars(Join)

\* --------------------------------------------------------------- properties
Range(s) == {s[i] : i \in 1..Len(s)}
\* the segments among the entries put on the queue, in order
SegsOf(entries) == SelectSeq(entries, LAMBDA e : e.kind = "segment")
\* the arrival numbers of the blocks of a segment
Ids(audio) == [i \in 1..Len(audio) |-> audio[i].id]
\* the arrival numbers a, a+1, ..., b
Run(a, b) == [i \in 1..(b - a + 1) |-> a + i - 1]
\* total duration of the audio at least ms milliseconds
AtLeastMs(audio, ms) == Len(audio) * BLOCK_SIZE * 1000 >= ms * SAMPLE_RATE
\* the blocks of the audio above the threshold
LoudAt(audio) == {i \in 1..Len(audio) : audio[i].rms > threshold}
\* the speech of a segment is one burst at its start, shorter than ms
ShortBurst(audio, ms) ==
  /\ LoudAt(audio) = 1..Cardinality(LoudAt(audio))
  /\ Cardinality(LoudAt(audio)) * BLOCK_SIZE * 1000 < ms * SAMPLE_RATE

\* C1: an entry of the queue that is a segment lasts at least
\* MIN_RECORDING_DURATION, all its blocks counted; a segment closed with a
\* smaller duration is discarded and is not among the entries put on the queue
C1_OnlyLongSegmentsEnqueued ==
  /\ \A i \in 1..Len(enqueued) :
       enqueued[i].kind = "segment" =>
         AtLeastMs(enqueued[i].audio, MIN_RECORDING_DURATION)
  /\ nclosed >= 1 =>
       /\ lastClosed.dispatched <=> AtLeastMs(lastClosed.audio, MIN_RECORDING_DURATION)
       /\ ~lastClosed.dispatched => Segment(lastClosed.audio) \notin Range(enqueued)
       /\ lastClosed.dispatched => Last(SegsOf(enqueued)) = Segment(lastClosed.audio)

\* a segment has been dispatched and a later one discarded
C1_Witness ==
  /\ nclosed >= 2
  /\ ~lastClosed.dispatched
  /\ Len(SegsOf(enqueued)) >= 1

\* C2: a segment whose speech is a single burst shorter than
\* MIN_RECORDING_DURATION, closed by the silence that follows it, is
\* discarded: nothing is put on the queue
C2_ShortBurstDiscarded ==
  (nclosed >= 1 /\ ShortBurst(lastClosed.audio, MIN_RECORDING_DURATION))
    => (~lastClosed.dispatched /\ Segment(lastClosed.audio) \notin Range(enqueued))

\* C3 as stated: a silence block at which the silence has lasted
\* SILENCE_DURATION or more, equality included, closes the segment
C3_ClosesAtEquality ==
  lastElapsed # NoTime => (lastElapsed >= SILENCE_DURATION => ~is_recording)

\* C3 amended: a silence block read while recording closes the segment if
\* and only if the silence has then lasted more than SILENCE_DURATION; the
\* closed segment ends with that block and is dispatched when it lasts at
\* least MIN_RECORDING_DURATION
C3_ClosesWhenExceeded ==
  lastElapsed # NoTime =>
    /\ ~is_recording <=> lastElapsed > SILENCE_DURATION
    /\ lastElapsed > SILENCE_DURATION =>
         /\ nclosed >= 1
         /\ Last(lastClosed.audio).id = nread
         /\ audio_buffer = <<>>
         /\ AtLeastMs(lastClosed.audio, MIN_RECORDING_DURATION) =>
              /\ lastClosed.dispatched
              /\ Last(SegsOf(enqueued)) = Segment(lastClosed.audio)

\* speech, then silence longer than SILENCE_DURATION: one segment, dispatched
C3_Witness ==
  /\ lastElapsed > SILENCE_DURATION
  /\ nclosed = 1
  /\ lastClosed.dispatched
  /\ SegsOf(enqueued) = <<Segment(lastClosed.audio)>>

\* C4: the blocks buffered while recording, and the blocks of a segment when
\* it closes, are the blocks read from the onset block to the last block
\* read, once each and in arrival order; a dispatched segment is the closed
\* segment
C4_SegmentIsBlocksFromOnset ==
  /\ is_recording => Ids(audio_buffer) = Run(onset, nread)
  /\ (lastElapsed # NoTime /\ ~is_recording) =>
       /\ Ids(lastClosed.audio) = Run(onset, nread)
       /\ lastClosed.audio[1].rms > threshold
  /\ \A i \in 1..Len(enqueued) :
       enqueued[i].kind = "segment" =>
         LET a == enqueued[i].audio IN
         /\ Ids(a) = Run(a[1].id, Last(a).id)
         /\ a[1].rms > threshold
         /\ \A j \in 1..Len(enqueued) :
              (j < i /\ enqueued[j].kind = "segment") => Last(enqueued[j].audio).id < a[1].id
  /\ (nclosed >= 1 /\ lastClosed.dispatched) =>
       Last(SegsOf(enqueued)) = Segment(lastClosed.audio)

\* a dispatched segment that begins after blocks read while idle
C4_Witness ==
  /\ lastElapsed # NoTime
  /\ ~is_recording
  /\ lastClosed.dispatched
  /\ onset > 1
  /\ Len(lastClosed.audio) > 8

\* C5: the worker takes the segments in the order in which the capture loop
\* put them on the queue: the segments handed to model.transcribe are the
\* first of the segments put on the queue, in the same order
C5_DequeueOrderIsEnqueueOrder ==
  /\ Len(transcribed) <= Len(SegsOf(enqueued))
  /\ \A i \in 1..Len(transcribed) : transcribed[i] = SegsOf(enqueued)[i]

\* two segments have been put on the queue and taken by the worker
C5_Witness ==
  /\ Len(transcribed) = 2
  /\ transcribed[1] # transcribed[2]

\* C6: when the worker has left its loop, every segment put on the queue
\* before the sentinel has been taken and handed to model.transcribe, and
\* none waits on the queue
C6_ExitsAfterDraining ==
  wpc = "exited" =>
    /\ queue = <<>>
    /\ Sentinel \in Range(enqueued)
    /\ transcribed = SegsOf(enqueued)
    /\ Len(outcomes) = Len(transcribed)

\* the worker has left its loop; two segments were unfinished when the
\* sentinel was put
C6_Witness ==
  /\ wpc = "exited"
  /\ stopUnfinished = 2

\* C7: the sentinel is put on the queue at most once and nothing is put
\* after it
C7_SentinelIsLast ==
  \A i \in 1..Len(enqueued) : enqueued[i] = Sentinel => i = Len(enqueued)

\* the sentinel has been put after a segment, while a recording was going on
C7_Witness ==
  /\ Len(enqueued) >= 2
  /\ Last(enqueued) = Sentinel
  /\ is_recording

\* C8: an exception of model.transcribe does not end the worker: it leaves
\* its loop only by taking the sentinel, an entry whose transcription raised
\* is not delivered, and when it raised for a first segment and returned
\* "h" for a second one, type_text has been called once, with "h"
C8_RaiseDoesNotStopWorker ==
  /\ wpc = "exited" => (Sentinel \in Range(enqueued) /\ Sentinel \notin Range(queue))
  /\ wpc # "exited" => wpc = (IF Len(outcomes) = Len(transcribed) THEN "get" ELSE "transcribe")
  /\ Len(delivered) <= Cardinality({i \in 1..Len(outcomes) : ~outcomes[i].raised})
  /\ (/\ Len(outcomes) = 2
      /\ outcomes[1].raised
      /\ outcomes[2] = [raised |-> FALSE, text |-> <<"h">>])
       => delivered = << <<"h">> >>

\* model.transcribe raised for a first segment and returned "h" for a second
C8_Witness ==
  /\ Len(outcomes) = 2
  /\ outcomes[1].raised
  /\ outcomes[2] = [raised |-> FALSE, text |-> <<"h">>]
  /\ delivered = << <<"h">> >>
  /\ wpc = "get"
  /\ pc = "listen"

\* C9: while main is in the capture loop, the iteration for the next block
\* can be taken for every block and every reading of the clock the bounds
\* admit, whatever waits on the queue and wherever the worker is
C9_CaptureNeverBlocked ==
  pc = "listen" =>
    \A rms \in RmsValues, d1 \in Deltas, d2 \in Deltas :
      InBounds(rms, d1, d2) => ENABLED ReadBlock(rms, d1, d2)

\* a segment has been put on the queue while model.transcribe was running
\* for an earlier one
C9_Witness ==
  /\ pc = "listen"
  /\ wpc = "transcribe"
  /\ Len(transcribed) = 1
  /\ Len(queue) = 1

\* main has returned only if the sentinel is the last entry put, the worker
\* has left its loop, every segment put on the queue has been transcribed to
\* its end and nothing waits
C10_Safety ==
  pc = "done" =>
    /\ Last(enqueued) = Sentinel
    /\ wpc = "exited"
    /\ queue = <<>>
    /\ transcribed = SegsOf(enqueued)
    /\ Len(outcomes) = Len(transcribed)

\* C10: after KeyboardInterrupt in the capture loop no block is read and
\* nothing more is put on the queue; main does not return before the worker
\* has finished every segment put on the queue and left its loop; and when
\* every call of model.transcribe ends, main returns
C10_GracefulShutdown ==
  /\ []C10_Safety
  /\ [][(pc \in {"join", "done"}) => (nread' = nread /\ enqueued' = enqueued)]_vars
  /\ (pc = "join") ~> (pc = "done")

\* main has returned; two segments were unfinished when it was interrupted
C10_Witness ==
  /\ pc = "done"
  /\ stopUnfinished = 2
  /\ Len(outcomes) = 2

\* C11: when stream.read raises in the capture loop, main puts the sentinel
\* on the queue, as it does for KeyboardInterrupt
C11_ReadErrorPutsSentinel ==
  [][(pc = "listen" /\ pc' = "crashed") =>
       (enqueued' = Append(enqueued, Sentinel) /\ queue' = Append(queue, Sentinel))]_vars

\* C12: when the worker has left its loop, every entry put on the queue has
\* been acknowledged with task_done: no entry is unfinished
C12_SentinelAcknowledged ==
  wpc = "exited" => unfinished = 0

\* t is s without the blanks at its two ends
IsStripOf(t, s) ==
  /\ t = <<>> \/ (t[1] # " " /\ t[Len(t)] # " ")
  /\ \E i \in 1..(Len(s) + 1) :
       /\ i + Len(t) - 1 <= Len(s)
       /\ t = SubSeq(s, i, i + Len(t) - 1)
       /\ \A k \in 1..Len(s) : (k < i \/ k > i + Len(t) - 1) => s[k] = " "
\* the transcriptions that returned a text with something other than blanks
Spoken(outs) ==
  SelectSeq(outs, LAMBDA o : ~o.raised /\ \E k \in 1..Len(o.text) : o.text[k] # " ")

\* C13: type_text is called once for every segment whose transcription
\* returned a text that is not empty once stripped, with the stripped text,
\* and not for the others; the calls are in the order of the transcriptions
C13_DeliversStrippedTexts ==
  /\ Len(delivered) = Len(Spoken(outcomes))
  /\ \A k \in 1..Len(delivered) : IsStripOf(delivered[k], Spoken(outcomes)[k].text)

\* a text with blanks around was delivered stripped, a blank one was not
C13_Witness ==
  /\ Len(outcomes) = 2
  /\ outcomes[1] = [raised |-> FALSE, text |-> <<" ", "h", " ">>]
  /\ outcomes[2] = [raised |-> FALSE, text |-> <<" ">>]
  /\ delivered = << <<"h">> >>

\* C14: as long as calibrate_noise has not returned a threshold (threshold
\* is 0), and for good when it raised, main is not in the capture loop, no
\* block has been read or buffered and no segment has been put on the queue
\* or transcribed
C14_NoCaptureWithoutThreshold ==
  threshold = 0 =>
    /\ pc \in {"calibrate", "crashed"}
    /\ nread = 0
    /\ ~is_recording
    /\ audio_buffer = <<>>
    /\ nclosed = 0
    /\ enqueued = <<>>
    /\ transcribed = <<>>

\* main has ended during the calibration
C14_Witness ==
  /\ pc = "crashed"
  /\ threshold = 0

\* the largest RMS among the chunks of a recording that are full blocks
MaxFullRms(rec) ==
  LET full == {i \in 1..Len(rec) : rec[i].len = BLOCK_SIZE}
  IN  CHOOSE m \in {rec[i].rms : i \in full} : \A i \in full : rec[i].rms <= m

\* C15: the threshold is the larger of the minimum threshold and of the
\* multiplier times the largest RMS of the full blocks, the trailing samples
\* left out; it is at least the minimum threshold and a larger multiplier
\* never gives a smaller threshold for the same recording
C15_ThresholdFormula ==
  pc = "listen" =>
    LET top == MaxFullRms(calRec) * calMult IN
    /\ threshold = (IF top >= MIN_THRESHOLD THEN top ELSE MIN_THRESHOLD)
    /\ threshold >= MIN_THRESHOLD
    /\ \A m \in Multipliers :
         /\ m >= calMult => CalThreshold(RmsOf(FullBlocks(calRec)), m) >= threshold
         /\ m <= calMult => CalThreshold(RmsOf(FullBlocks(calRec)), m) <= threshold

\* silent full blocks and louder trailing samples: the threshold is the floor
C15_Witness ==
  /\ pc = "listen"
  /\ MaxFullRms(calRec) = 0
  /\ calRec[Len(calRec)].rms > 0
  /\ calMult > 0
  /\ threshold = MIN_THRESHOLD

\* a segment with a pause: a block of silence followed by a block of speech
HasPause(audio) ==
  \E i, j \in 1..Len(audio) :
    i < j /\ audio[i].rms <= threshold /\ audio[j].rms > threshold

\* C16: the silence timer, while set, is the clock at the first block of the
\* run of silence blocks that has not been interrupted by speech, and it is
\* unset after a block of speech; the elapsed silence that decides the close
\* is counted from the start of that run, so a segment only closes on a run
\* longer than SILENCE_DURATION; the blocks of the pauses stay in the buffer
C16_SilenceMeasuredFromRunStart ==
  /\ is_recording =>
       /\ calculate_rms(Last(audio_buffer)) > threshold => silence_start_time = NoTime
       /\ calculate_rms(Last(audio_buffer)) <= threshold =>
            (silence_start_time # NoTime /\ silence_start_time = silentSince)
       /\ Len(audio_buffer) = nread - onset + 1
  /\ lastElapsed # NoTime =>
       /\ silentSince # NoTime
       /\ lastElapsed = now - silentSince
       /\ ~is_recording => lastElapsed > SILENCE_DURATION

\* a dispatched segment that holds a pause
C16_Witness ==
  /\ lastElapsed # NoTime
  /\ ~is_recording
  /\ lastClosed.dispatched
  /\ HasPause(lastClosed.audio)
  /\ Len(lastClosed.audio) = nread - onset + 1

\* C17: between two iterations of the capture loop the silence timer is
\* unset whenever is_recording is false: it is set only while recording, with
\* a clock reading not in the future, and is unset again by the close of the
\* segment, dispatched or discarded, and by a block of speech
C17_TimerUnsetWhenIdle ==
  /\ ~is_recording => silence_start_time = NoTime
  /\ silence_start_time # NoTime =>
       /\ is_recording
       /\ 0 <= silence_start_time /\ silence_start_time <= now
       /\ calculate_rms(Last(audio_buffer)) <= threshold
  /\ (lastElapsed # NoTime /\ lastElapsed > SILENCE_DURATION) => silence_start_time = NoTime

\* a segment has just been closed and discarded: the timer is unset again
C17_Witness ==
  /\ ~is_recording
  /\ lastElapsed > SILENCE_DURATION
  /\ nclosed >= 1
  /\ ~lastClosed.dispatched
  /\ silence_start_time = NoTime

\* C18: an iteration that reads a block with RMS at most the threshold while
\* is_recording is false changes neither is_recording, nor the buffer, which
\* stays empty, nor the silence timer, nor the queue
C18_IdleSilenceIsNoOp ==
  [][(pc = "listen" /\ ~is_recording /\ nread' = nread + 1 /\ nloud' = nloud) =>
       /\ is_recording' = is_recording
       /\ audio_buffer' = audio_buffer
       /\ audio_buffer' = <<>>
       /\ silence_start_time' = silence_start_time
       /\ queue' = queue
       /\ enqueued' = enqueued
       /\ unfinished' = unfinished
       /\ nclosed' = nclosed]_vars

\* a block of silence has been read while idle, after a segment was put on
\* the queue, which still holds it
C18_Witness ==
  /\ pc = "listen"
  /\ ~is_recording
  /\ nidle >= 1
  /\ lastElapsed = NoTime
  /\ nclosed >= 1
  /\ Len(queue) = 1
  /\ Last(lastClosed.audio).id < nread

\* the blocks of the entries of a sequence of queue entries
BlocksOf(entries) == UNION {Range(entries[i].audio) : i \in 1..Len(entries)}

\* C19: KeyboardInterrupt in the capture loop puts the sentinel on the queue
\* and nothing else; the blocks buffered for a recording in progress are
\* not on the queue, and are never put on it or transcribed afterwards
C19_RecordingInProgressDropped ==
  /\ [][(pc = "listen" /\ pc' = "join") =>
          (queue' = Append(queue, Sentinel) /\ enqueued' = Append(enqueued, Sentinel))]_vars
  /\ []((pc \in {"join", "done"} /\ is_recording) =>
          /\ Range(audio_buffer) \cap BlocksOf(enqueued) = {}
          /\ Range(audio_buffer) \cap BlocksOf(queue) = {}
          /\ Range(audio_buffer) \cap BlocksOf(transcribed) = {})

\* main has returned; it was interrupted during a recording of 8 blocks or
\* more, and the sentinel is the only entry ever put on the queue
C19_Witness ==
  /\ pc = "done"
  /\ is_recording
  /\ Len(audio_buffer) >= 8
  /\ enqueued = <<Sentinel>>
  /\ transcribed = <<>>

\* C20: between two iterations of the capture loop the buffer is empty when
\* is_recording is false and not empty when it is true, when it begins with
\* a block of speech; a closed segment, dispatched or discarded, begins with
\* a block of speech and ends with a block of silence, so it holds two
\* blocks or more
C20_BufferMatchesState ==
  /\ ~is_recording => audio_buffer = <<>>
  /\ is_recording =>
       /\ audio_buffer # <<>>
       /\ calculate_rms(audio_buffer[1]) > threshold
  /\ nclosed >= 1 =>
       /\ Len(lastClosed.audio) >= 2
       /\ calculate_rms(lastClosed.audio[1]) > threshold
       /\ calculate_rms(Last(lastClosed.audio)) <= threshold

\* a short segment has been closed and discarded, and a new recording has
\* begun with one block of speech
C20_Witness ==
  /\ nclosed >= 1
  /\ ~lastClosed.dispatched
  /\ Len(lastClosed.audio) <= 4
  /\ is_recording
  /\ Len(audio_buffer) = 1

====
